---- MODULE Spec2Model ----
(***************************************************************************)
(* Model of webscrapping/glassdoor.py: the HTML-to-text rule _strip_html,  *)
(* the JSON-LD extractor _parse_json_ld and the scraping loop get_jobs.    *)
(*                                                                         *)
(* Python text is a sequence of one-character strings.  A Python / JSON    *)
(* value is a tagged record: None, Str(chars), Num(n), Dict(function from  *)
(* keys to values), List(sequence of values).                              *)
(***************************************************************************)
EXTENDS Integers, Sequences, FiniteSets, TLC

VARIABLES
    html,            \* SpecStrip: the input of _strip_html
    text1,           \* SpecStrip: _strip_html(html)
    text2,           \* SpecStrip: _strip_html(_strip_html(html))
    scripts,         \* SpecParse: the ld+json script blocks of the page
    parsed,          \* SpecParse: outcome of _parse_json_ld on scripts
    all_links,       \* get_jobs: href of every <a> of the results page
    num_jobs,        \* get_jobs: the requested count
    job_urls_unique, \* get_jobs: the URL set
    i,               \* get_jobs: number of URLs of the set taken by the loop
    rows,            \* get_jobs: the accumulating rows
    pc,              \* position of the modelled function
    visits,          \* trace: per driver.get(url) of the loop, the page met, how
                     \* the visit ended, whether _parse_json_ld ran, and the
                     \* columns whose fallback lookup ran
    returned         \* get_jobs: the returned table (None before the return)

vars == <<html, text1, text2, scripts, parsed, all_links, num_jobs,
          job_urls_unique, i, rows, pc, visits, returned>>

----------------------------------------------------------------------------
(* Python values *)

None == [kind |-> "none"]
Str(s) == [kind |-> "str", s |-> s]
Num(n) == [kind |-> "num", n |-> n]
Dict(d) == [kind |-> "dict", d |-> d]
List(xs) == [kind |-> "list", xs |-> xs]

\* bool(v): None, "", 0, {} and [] are falsy.
Truthy(v) ==
    CASE v.kind = "none" -> FALSE
      [] v.kind = "str" -> v.s # <<>>
      [] v.kind = "num" -> v.n # 0
      [] v.kind = "dict" -> DOMAIN v.d # {}
      [] v.kind = "list" -> v.xs # <<>>

\* a or b
Or(a, b) == IF Truthy(a) THEN a ELSE b

\* obj.get(key) on a dict value
Get(obj, key) == IF key \in DOMAIN obj.d THEN obj.d[key] ELSE None

\* characters matched by \s and removed by str.strip()
Space == {" ", "\t", "\n"}

MinOf(S) == CHOOSE x \in S : \A y \in S : x <= y
MaxOf(S) == CHOOSE x \in S : \A y \in S : x >= y

\* first index >= j of s that holds no whitespace (Len(s)+1 when none)
SkipSpace(s, j) ==
    MinOf({k \in j..(Len(s) + 1) : k = Len(s) + 1 \/ s[k] \notin Space})

\* whether the literal lit occurs in s at index j
At(s, j, lit) ==
    /\ j + Len(lit) - 1 <= Len(s)
    /\ \A k \in 1..Len(lit) : s[j + k - 1] = lit[k]

\* str.strip()
strip(s) ==
    LET keep == {k \in 1..Len(s) : s[k] \notin Space}
    IN IF keep = {} THEN <<>> ELSE SubSeq(s, MinOf(keep), MaxOf(keep))

----------------------------------------------------------------------------
(* _strip_html: each re.sub is a left-to-right scan; Match* is the length  *)
(* of the match of the pattern at index j, 0 when there is none.           *)

\* <br\s*/?>  with re.I
MatchBr(s, j) ==
    IF j + 2 <= Len(s) /\ s[j] = "<" /\ s[j + 1] \in {"b", "B"} /\ s[j + 2] \in {"r", "R"}
    THEN LET a == SkipSpace(s, j + 3)
             b == IF a <= Len(s) /\ s[a] = "/" THEN a + 1 ELSE a
         IN IF b <= Len(s) /\ s[b] = ">" THEN b - j + 1 ELSE 0
    ELSE 0

\* </p\s*>  with re.I
MatchEndP(s, j) ==
    IF j + 2 <= Len(s) /\ s[j] = "<" /\ s[j + 1] = "/" /\ s[j + 2] \in {"p", "P"}
    THEN LET a == SkipSpace(s, j + 3)
         IN IF a <= Len(s) /\ s[a] = ">" THEN a - j + 1 ELSE 0
    ELSE 0

\* <[^>]+>
MatchTag(s, j) ==
    IF s[j] = "<" /\ j + 1 <= Len(s) /\ s[j + 1] # ">"
    THEN LET closing == {k \in (j + 2)..Len(s) : s[k] = ">"}
         IN IF closing = {} THEN 0 ELSE MinOf(closing) - j + 1
    ELSE 0

\* \s+\n : the longest run of whitespace from j that ends in a newline
MatchSpaceNl(s, j) ==
    IF s[j] \in Space
    THEN LET stop == SkipSpace(s, j)
             nls == {k \in (j + 1)..(stop - 1) : s[k] = "\n"}
         IN IF nls = {} THEN 0 ELSE MaxOf(nls) - j + 1
    ELSE 0

\* \n\s+
MatchNlSpace(s, j) ==
    IF s[j] = "\n" /\ SkipSpace(s, j + 1) > j + 1 THEN SkipSpace(s, j + 1) - j ELSE 0

\* [ \t]+
MatchBlank(s, j) ==
    IF s[j] \in {" ", "\t"}
    THEN MinOf({k \in j..(Len(s) + 1) : k = Len(s) + 1 \/ s[k] \notin {" ", "\t"}}) - j
    ELSE 0

RECURSIVE SubBr(_, _)
SubBr(s, j) ==
    IF j > Len(s) THEN <<>>
    ELSE IF MatchBr(s, j) > 0 THEN <<"\n">> \o SubBr(s, j + MatchBr(s, j))
    ELSE <<s[j]>> \o SubBr(s, j + 1)

RECURSIVE SubEndP(_, _)
SubEndP(s, j) ==
    IF j > Len(s) THEN <<>>
    ELSE IF MatchEndP(s, j) > 0 THEN <<"\n">> \o SubEndP(s, j + MatchEndP(s, j))
    ELSE <<s[j]>> \o SubEndP(s, j + 1)

RECURSIVE SubTag(_, _)
SubTag(s, j) ==
    IF j > Len(s) THEN <<>>
    ELSE IF MatchTag(s, j) > 0 THEN <<" ">> \o SubTag(s, j + MatchTag(s, j))
    ELSE <<s[j]>> \o SubTag(s, j + 1)

RECURSIVE SubNbsp(_, _)
SubNbsp(s, j) ==
    IF j > Len(s) THEN <<>>
    ELSE IF At(s, j, <<"&", "n", "b", "s", "p", ";">>) THEN <<" ">> \o SubNbsp(s, j + 6)
    ELSE <<s[j]>> \o SubNbsp(s, j + 1)

RECURSIVE SubAmp(_, _)
SubAmp(s, j) ==
    IF j > Len(s) THEN <<>>
    ELSE IF At(s, j, <<"&", "a", "m", "p", ";">>) THEN <<"&">> \o SubAmp(s, j + 5)
    ELSE <<s[j]>> \o SubAmp(s, j + 1)

RECURSIVE SubSpaceNl(_, _)
SubSpaceNl(s, j) ==
    IF j > Len(s) THEN <<>>
    ELSE IF MatchSpaceNl(s, j) > 0 THEN <<"\n">> \o SubSpaceNl(s, j + MatchSpaceNl(s, j))
    ELSE <<s[j]>> \o SubSpaceNl(s, j + 1)

RECURSIVE SubNlSpace(_, _)
SubNlSpace(s, j) ==
    IF j > Len(s) THEN <<>>
    ELSE IF MatchNlSpace(s, j) > 0 THEN <<"\n">> \o SubNlSpace(s, j + MatchNlSpace(s, j))
    ELSE <<s[j]>> \o SubNlSpace(s, j + 1)

RECURSIVE SubBlank(_, _)
SubBlank(s, j) ==
    IF j > Len(s) THEN <<>>
    ELSE IF MatchBlank(s, j) > 0 THEN <<" ">> \o SubBlank(s, j + MatchBlank(s, j))
    ELSE <<s[j]>> \o SubBlank(s, j + 1)

\* lines 19-21: the three tag substitutions
StripTags(s) == SubTag(SubEndP(SubBr(s, 1), 1), 1)

\* lines 22-23: &nbsp; is decoded before &amp;
DecodeEntities(s) == SubAmp(SubNbsp(s, 1), 1)

\* lines 24-26: whitespace around newlines, then runs of blanks
CollapseSpace(s) == SubBlank(SubNlSpace(SubSpaceNl(s, 1), 1), 1)

\* a faulty variant of _strip_html, to show what rests on it: the entities are decoded after the whitespace
\* rules and the final strip
StripHtmlDecodeLast(s) ==
    IF s = <<>> THEN <<>>
    ELSE DecodeEntities(strip(CollapseSpace(StripTags(s))))

\* _strip_html on the characters of a str (lines 17-27)
_strip_html(s) ==
    IF s = <<>> THEN <<>>
    ELSE strip(CollapseSpace(DecodeEntities(StripTags(s))))

----------------------------------------------------------------------------
(* _parse_json_ld *)

Chars_JobPosting == <<"J", "o", "b", "P", "o", "s", "t", "i", "n", "g">>

\* A script element of type application/ld+json, by what lines 39-47 make of
\* its innerHTML: raw is "blank" (None, empty or whitespace only), "malformed"
\* (json.loads raises) or "json", and then data is the loaded value.
Block(raw, data) == [raw |-> raw, data |-> data]

\* lines 49-56
Candidates(data) ==
    IF data.kind = "list" THEN data.xs
    ELSE IF data.kind = "dict"
    THEN IF "@graph" \in DOMAIN data.d /\ data.d["@graph"].kind = "list"
         THEN data.d["@graph"].xs
         ELSE <<data>>
    ELSE <<>>

\* lines 63-67
IsJob(obj) ==
    LET t == Get(obj, "@type")
    IN IF t.kind = "list"
       THEN \E k \in 1..Len(t.xs) : t.xs[k] = Str(Chars_JobPosting)
       ELSE t = Str(Chars_JobPosting)

RECURSIVE Digits(_)
Digits(n) ==
    IF n < 10 THEN <<SubSeq(<<"0", "1", "2", "3", "4", "5", "6", "7", "8", "9">>, n + 1, n + 1)[1]>>
    ELSE Digits(n \div 10) \o Digits(n % 10)

\* "{v}" in an f-string, for a str or a non-negative int
Format(v) ==
    CASE v.kind = "str" -> v.s
      [] v.kind = "num" -> Digits(v.n)

\* lines 97-106 for one element of locs: the text it yields, None when it
\* yields none and the loop goes on
LocationOf(l) ==
    IF l.kind # "dict" THEN None
    ELSE LET addr == Get(l, "address")
         IN IF addr.kind # "dict" THEN None
            ELSE LET city == Get(addr, "addressLocality")
                     region == Get(addr, "addressRegion")
                 IN IF Truthy(city) /\ Truthy(region)
                    THEN Str(Format(city) \o <<",", " ">> \o Format(region))
                    ELSE IF Truthy(city) THEN city
                    ELSE None

\* a faulty variant of LocationText, to show what rests on it: the loop has no break, the last location wins
LocationTextLast(loc) ==
    LET locs == IF loc.kind = "list" THEN loc.xs
                ELSE IF loc.kind = "dict" THEN <<loc>> ELSE <<>>
        hits == {k \in 1..Len(locs) : LocationOf(locs[k]) # None}
    IN IF hits = {} THEN None ELSE LocationOf(locs[MaxOf(hits)])

\* lines 86-106: location_text after the loop over locs
LocationText(loc) ==
    LET locs == IF loc.kind = "list" THEN loc.xs
                ELSE IF loc.kind = "dict" THEN <<loc>> ELSE <<>>
        hits == {k \in 1..Len(locs) : LocationOf(locs[k]) # None}
    IN IF hits = {} THEN None ELSE LocationOf(locs[MinOf(hits)])

\* lines 73-75
TitlePart(obj) ==
    LET title == Or(Get(obj, "title"), Get(obj, "name"))
    IN IF Truthy(title) THEN "title" :> title ELSE <<>>

\* lines 78-82
CompanyPart(obj) ==
    LET org == Or(Get(obj, "hiringOrganization"), Dict(<<>>))
    IN IF org.kind = "dict" /\ Truthy(Get(org, "name"))
       THEN "company" :> Get(org, "name") ELSE <<>>

\* lines 107-108
LocationPart(obj) ==
    LET location_text == LocationText(Get(obj, "jobLocation"))
    IN IF Truthy(location_text) THEN "location" :> location_text ELSE <<>>

\* lines 111-113: re.sub raises TypeError on a truthy description that is no str
DescriptionRaises(obj) ==
    Truthy(Get(obj, "description")) /\ Get(obj, "description").kind # "str"

DescriptionPart(obj) ==
    LET desc == Get(obj, "description")
    IN IF Truthy(desc) /\ desc.kind = "str"
       THEN "description" :> Str(_strip_html(desc.s)) ELSE <<>>

\* lines 72-115 for the JobPosting object obj: the dict returned, or the raise
Extract(obj) ==
    IF DescriptionRaises(obj)
    THEN [status |-> "raised", result |-> <<>>]
    ELSE [status |-> "returned",
          result |-> TitlePart(obj) @@ CompanyPart(obj) @@ LocationPart(obj)
                     @@ DescriptionPart(obj)]

\* a faulty variant of ScanCandidates, to show what rests on it: the last JobPosting of the block is taken
ScanCandidatesLast(cs, c) ==
    LET jobs == {k \in c..Len(cs) : cs[k].kind = "dict" /\ IsJob(cs[k])}
    IN IF jobs = {} THEN [status |-> "none", result |-> <<>>, seen |-> Len(cs)]
       ELSE [status |-> Extract(cs[MaxOf(jobs)]).status,
             result |-> Extract(cs[MaxOf(jobs)]).result, seen |-> Len(cs)]

\* lines 58-115: the loop over the candidates of one block from index c on;
\* seen is the number of candidates of the block the loop has reached
RECURSIVE ScanCandidates(_, _)
ScanCandidates(cs, c) ==
    IF c > Len(cs) THEN [status |-> "none", result |-> <<>>, seen |-> Len(cs)]
    ELSE IF cs[c].kind # "dict" THEN ScanCandidates(cs, c + 1)
    ELSE IF ~IsJob(cs[c]) THEN ScanCandidates(cs, c + 1)
    ELSE [status |-> Extract(cs[c]).status, result |-> Extract(cs[c]).result,
          seen |-> c]

\* a faulty variant of ScanBlock, to show what rests on it: the except clause ends the scan instead of continuing
ScanBlockAbort(blk) ==
    IF blk.raw = "blank" THEN [status |-> "none", result |-> <<>>, seen |-> 0]
    ELSE IF blk.raw = "malformed" THEN [status |-> "returned", result |-> <<>>, seen |-> 0]
    ELSE ScanCandidates(Candidates(blk.data), 1)

\* lines 39-115 for one script element
ScanBlock(blk) ==
    IF blk.raw = "blank" THEN [status |-> "none", result |-> <<>>, seen |-> 0]
    ELSE IF blk.raw = "malformed" THEN [status |-> "none", result |-> <<>>, seen |-> 0]
    ELSE ScanCandidates(Candidates(blk.data), 1)

\* lines 38-117: the loop over the script elements from index b on; trail
\* lists, per script element reached, how many of its candidates were reached
RECURSIVE ScanScripts(_, _)
ScanScripts(ss, b) ==
    IF b > Len(ss) THEN [status |-> "returned", result |-> <<>>, trail |-> <<>>]
    ELSE LET one == ScanBlock(ss[b])
         IN IF one.status = "none"
            THEN LET rest == ScanScripts(ss, b + 1)
                 IN [status |-> rest.status, result |-> rest.result,
                     trail |-> <<one.seen>> \o rest.trail]
            ELSE [status |-> one.status, result |-> one.result,
                  trail |-> <<one.seen>>]

_parse_json_ld(ss) == ScanScripts(ss, 1)

----------------------------------------------------------------------------
(* SpecParse: _parse_json_ld on a page holding a bounded sequence of blocks *)

MaxBlocks == 2

T(name) == Str(<<name>>)
JobType == Str(Chars_JobPosting)
OrgType == Str(<<"O", "r", "g">>)
Obj(type, fields) == Dict(("@type" :> type) @@ fields)

PostingA ==
    Obj(JobType, "title" :> T("A") @@ "name" :> T("a")
        @@ "hiringOrganization" :> Dict("name" :> T("K"))
        @@ "jobLocation" :> Dict("address" :> Dict("addressLocality" :> T("L")
                                                   @@ "addressRegion" :> T("R")))
        @@ "description" :> Str(<<"<", "p", ">", "D", "&", "a", "m", "p", ";", "E", "<", "/", "p", ">">>))
PostingB ==
    Obj(List(<<OrgType, JobType>>), "name" :> T("B") @@ "title" :> Str(<<>>))
PostingC ==
    Obj(JobType, "hiringOrganization" :> Dict("name" :> T("M"))
        @@ "jobLocation" :> List(<<Dict("address" :> Dict("addressLocality" :> T("N")))>>)
        @@ "description" :> Str(<<"<", "p", ">", " ", "<", "/", "p", ">">>))
PostingBad ==
    Obj(JobType, "title" :> T("X") @@ "description" :> Num(7))
PostingBare ==
    Obj(JobType, "hiringOrganization" :> T("H") @@ "jobLocation" :> T("J")
        @@ "title" :> Num(0))
NotPosting ==
    Obj(OrgType, "title" :> T("Z") @@ "description" :> Str(<<"z">>))
UntypedList ==
    Obj(List(<<OrgType>>), "title" :> T("Y"))

ParseBlocks == {
    Block("blank", None), Block("malformed", None),
    Block("json", PostingA), Block("json", PostingB), Block("json", PostingC),
    Block("json", PostingBad), Block("json", PostingBare),
    Block("json", NotPosting), Block("json", Num(3)),
    Block("json", List(<<T("s"), NotPosting, PostingC, PostingA>>)),
    Block("json", List(<<UntypedList, PostingB, PostingBad>>)),
    Block("json", List(<<NotPosting, UntypedList>>)),
    Block("json", Dict("@graph" :> List(<<NotPosting, PostingA, PostingB>>)
                       @@ "@type" :> JobType @@ "title" :> T("G"))),
    Block("json", Dict("@graph" :> T("g") @@ "@type" :> JobType @@ "title" :> T("G"))) }

IdleRun ==
    /\ html = <<>> /\ text1 = <<>> /\ text2 = <<>>

IdleJobs ==
    /\ all_links = <<>> /\ num_jobs = 0
    /\ job_urls_unique = <<>> /\ i = 0 /\ rows = <<>>
    /\ visits = <<>> /\ returned = None

InitParse ==
    /\ scripts \in UNION {[1..n -> ParseBlocks] : n \in 0..MaxBlocks}
    /\ parsed = None
    /\ pc = "parse"
    /\ IdleRun /\ IdleJobs

Parse ==
    /\ pc = "parse"
    /\ parsed' = _parse_json_ld(scripts)
    /\ pc' = "parsed"
    /\ UNCHANGED <<html, text1, text2, scripts, all_links, num_jobs,
                   job_urls_unique, i, rows, visits, returned>>

NextParse == Parse

SpecParse == InitParse /\ [][NextParse]_vars

----------------------------------------------------------------------------
(* SpecLoc: _parse_json_ld on a page whose one JobPosting has a bounded    *)
(* jobLocation                                                             *)

MaxLocs == 3

\* a key of a dict literal, left out when the value is None
Field(key, v) == IF v = None THEN <<>> ELSE key :> v

Addresses ==
    {Dict(Field("addressLocality", city) @@ Field("addressRegion", region)) :
        city \in {None, Str(<<>>), T("P"), T("Q"), Num(5)},
        region \in {None, Str(<<>>), T("R")}}

LocItems ==
    {Dict("address" :> a) : a \in Addresses}
        \cup {Dict(<<>>), Dict("address" :> T("s")), T("x")}

JobLocations ==
    {None, T("J")} \cup LocItems
        \cup {List(xs) : xs \in UNION {[1..n -> LocItems] : n \in 0..MaxLocs}}

InitLoc ==
    /\ \E loc \in JobLocations :
          scripts = <<Block("json", Obj(JobType, "title" :> T("A")
                                                  @@ Field("jobLocation", loc)))>>
    /\ parsed = None
    /\ pc = "parse"
    /\ IdleRun /\ IdleJobs

SpecLoc == InitLoc /\ [][NextParse]_vars

----------------------------------------------------------------------------
(* get_jobs *)

Chars_JobListing == <<"/", "j", "o", "b", "-", "l", "i", "s", "t", "i", "n", "g", "/">>

\* the fields of a row, with the key _parse_json_ld gives each
Columns == {"Job Title", "Company Name", "Location", "Job Description"}
LdKey(col) ==
    CASE col = "Job Title" -> "title"
      [] col = "Company Name" -> "company"
      [] col = "Location" -> "location"
      [] col = "Job Description" -> "description"

Sentinel == Str(<<"-", "1">>)

\* line 153: href and "/job-listing/" in href
IsListing(href) ==
    /\ Truthy(href)
    /\ \E j \in 1..Len(href.s) : At(href.s, j, Chars_JobListing)

\* lines 150-154
RECURSIVE Harvest(_)
Harvest(links) ==
    IF links = <<>> THEN <<>>
    ELSE IF IsListing(Head(links)) THEN <<Head(links)>> \o Harvest(Tail(links))
    ELSE Harvest(Tail(links))

\* a faulty variant of Dedupe, to show what rests on it: only a repeat of the link just before it is dropped
RECURSIVE DropAdjacent(_)
DropAdjacent(urls) ==
    IF Len(urls) < 2 THEN urls
    ELSE IF urls[Len(urls)] = urls[Len(urls) - 1]
    THEN DropAdjacent(SubSeq(urls, 1, Len(urls) - 1))
    ELSE Append(DropAdjacent(SubSeq(urls, 1, Len(urls) - 1)), urls[Len(urls)])

DedupeAdjacent(urls) == DropAdjacent(urls)

\* lines 157-162: the list after the loop has taken the first k urls
RECURSIVE DedupeUpTo(_, _)
DedupeUpTo(urls, k) ==
    IF k = 0 THEN <<>>
    ELSE LET before == DedupeUpTo(urls, k - 1)
         IN IF \E j \in 1..Len(before) : before[j] = urls[k]
            THEN before
            ELSE Append(before, urls[k])

Dedupe(urls) == DedupeUpTo(urls, Len(urls))

\* line 164: urls[:n] for n >= 0
Cap(urls, n) == SubSeq(urls, 1, IF n < Len(urls) THEN n ELSE Len(urls))

\* ld.get(key)
LdGet(ld, key) == IF key \in DOMAIN ld THEN ld[key] ELSE None

\* A rendered job page: h1 tells whether the wait of line 180 succeeds,
\* scripts are its ld+json blocks, and dom gives per column what the
\* find_element of its fallback meets: None when it raises, Str(text) for the
\* .text of the element found.
Page(h1, ss, dom) == [h1 |-> h1, scripts |-> ss, dom |-> dom]

\* lines 193-233 for one column
Resolve(ld, page, col) ==
    IF Truthy(LdGet(ld, LdKey(col))) THEN LdGet(ld, LdKey(col))
    ELSE IF page.dom[col] = None THEN Sentinel
    ELSE Str(strip(page.dom[col].s))

\* the columns whose fallback lookup is run
Lookups(ld) == {col \in Columns : ~Truthy(LdGet(ld, LdKey(col)))}

\* lines 237-242
Row(ld, page) == [col \in Columns |-> Resolve(ld, page, col)]

Table(rs) == [kind |-> "table", rows |-> rs]

NoDom == [col \in Columns |-> None]

PostingCompany ==
    Obj(JobType, "hiringOrganization" :> Dict("name" :> T("M"))
        @@ "description" :> Str(<<"<", "p", ">", " ", "<", "/", "p", ">">>))

\* The pages a job URL may render: one that never shows its h1; one whose
\* JSON-LD supplies every field; one whose JSON-LD supplies the company only
\* and whose fallbacks meet a heading, no location element and a description
\* element with blank text; one whose JSON-LD description is a number.
RunPages == {
    Page(FALSE, <<>>, NoDom),
    Page(TRUE, <<Block("malformed", None), Block("json", PostingA)>>, NoDom),
    Page(TRUE, <<Block("json", PostingCompany)>>,
         "Job Title" :> Str(<<" ", "T", "\n">>) @@ "Company Name" :> Str(<<"U">>)
         @@ "Location" :> None @@ "Job Description" :> Str(<<" ", " ">>)),
    Page(TRUE, <<Block("json", PostingBad)>>, NoDom) }

\* line 190 on each page, evaluated once
Ld == [page \in RunPages |-> _parse_json_ld(page.scripts)]

\* lines 149-166
CollectUrls ==
    /\ pc = "collect"
    /\ job_urls_unique' = Cap(Dedupe(Harvest(all_links)), num_jobs)
    /\ pc' = "loop"
    /\ UNCHANGED <<html, text1, text2, scripts, parsed, all_links, num_jobs,
                   i, rows, visits, returned>>

\* a faulty variant of VisitTimeout, to show what rests on it: a page that does not load yields a row of sentinels
VisitTimeoutRow ==
    /\ pc = "loop"
    /\ i < Len(job_urls_unique)
    /\ \E page \in RunPages :
          /\ ~page.h1
          /\ visits' = Append(visits, [url |-> job_urls_unique[i + 1], page |-> page,
                                       status |-> "timeout", extracted |-> FALSE,
                                       lookups |-> {}])
    /\ rows' = Append(rows, [col \in Columns |-> Sentinel])
    /\ i' = i + 1
    /\ UNCHANGED <<html, text1, text2, scripts, parsed, all_links, num_jobs,
                   job_urls_unique, pc, returned>>

\* lines 175-185: the wait for h1 times out and the loop continues
VisitTimeout ==
    /\ pc = "loop"
    /\ i < Len(job_urls_unique)
    /\ \E page \in RunPages :
          /\ ~page.h1
          /\ visits' = Append(visits, [url |-> job_urls_unique[i + 1], page |-> page,
                                       status |-> "timeout", extracted |-> FALSE,
                                       lookups |-> {}])
    /\ i' = i + 1
    /\ UNCHANGED <<html, text1, text2, scripts, parsed, all_links, num_jobs,
                   job_urls_unique, rows, pc, returned>>

\* lines 175-242: the page loads, _parse_json_ld returns, the row is appended
VisitRow ==
    /\ pc = "loop"
    /\ i < Len(job_urls_unique)
    /\ \E page \in RunPages :
          /\ page.h1
          /\ Ld[page].status = "returned"
          /\ LET ld == Ld[page].result
             IN /\ rows' = Append(rows, Row(ld, page))
                /\ visits' = Append(visits, [url |-> job_urls_unique[i + 1],
                                             page |-> page, status |-> "row",
                                             extracted |-> TRUE,
                                             lookups |-> Lookups(ld)])
    /\ i' = i + 1
    /\ UNCHANGED <<html, text1, text2, scripts, parsed, all_links, num_jobs,
                   job_urls_unique, pc, returned>>

\* lines 175-190: the page loads and _parse_json_ld raises; nothing in get_jobs
\* catches it, so get_jobs ends with the exception
VisitRaise ==
    /\ pc = "loop"
    /\ i < Len(job_urls_unique)
    /\ \E page \in RunPages :
          /\ page.h1
          /\ Ld[page].status = "raised"
          /\ visits' = Append(visits, [url |-> job_urls_unique[i + 1], page |-> page,
                                       status |-> "raised", extracted |-> TRUE,
                                       lookups |-> {}])
    /\ pc' = "raised"
    /\ UNCHANGED <<html, text1, text2, scripts, parsed, all_links, num_jobs,
                   job_urls_unique, i, rows, returned>>

\* lines 244-245
Return ==
    /\ pc = "loop"
    /\ i = Len(job_urls_unique)
    /\ returned' = Table(rows)
    /\ pc' = "done"
    /\ UNCHANGED <<html, text1, text2, scripts, parsed, all_links, num_jobs,
                   job_urls_unique, i, rows, visits>>

----------------------------------------------------------------------------
(* Spec: get_jobs on a results page of bounded length *)

MaxLinks == 4
MaxJobs == 3

Url(n) == Str(Chars_JobListing \o <<n>>)

Hrefs == {None, Str(<<"/", "j", "o", "b", "s">>), Url("1"), Url("2"), Url("3")}

Init ==
    /\ all_links \in UNION {[1..n -> Hrefs] : n \in 0..MaxLinks}
    /\ num_jobs \in 0..MaxJobs
    /\ job_urls_unique = <<>> /\ i = 0 /\ rows = <<>>
    /\ visits = <<>> /\ returned = None
    /\ pc = "collect"
    /\ scripts = <<>> /\ parsed = None
    /\ IdleRun

Next == CollectUrls \/ VisitTimeout \/ VisitRow \/ VisitRaise \/ Return

Spec == Init /\ [][Next]_vars

----------------------------------------------------------------------------
(* SpecStrip: _strip_html applied to an input, then to its own output *)

MaxPieces == 3

Pieces == {
    <<"&", "a", "m", "p", ";">>, <<"&", "n", "b", "s", "p", ";">>,
    <<"a", "m", "p", ";">>, <<"n", "b", "s", "p", ";">>,
    <<"<", "b", "r">>, <<"<", "B", "R">>, <<"<", "/", "p">>,
    <<"<">>, <<">">>, <<"/">>, <<" ">>, <<"\n">>, <<"\t">>, <<"x">> }

RECURSIVE Concat(_)
Concat(ps) == IF ps = <<>> THEN <<>> ELSE Head(ps) \o Concat(Tail(ps))

HtmlInputs ==
    {Concat(ps) : ps \in UNION {[1..n -> Pieces] : n \in 0..MaxPieces}}

InitStrip ==
    /\ html \in HtmlInputs
    /\ text1 = <<>> /\ text2 = <<>>
    /\ pc = "strip"
    /\ scripts = <<>> /\ parsed = None
    /\ IdleJobs

StripOnce ==
    /\ pc = "strip"
    /\ text1' = _strip_html(html)
    /\ pc' = "restrip"
    /\ UNCHANGED <<html, text2, scripts, parsed, all_links, num_jobs,
                   job_urls_unique, i, rows, visits, returned>>

StripAgain ==
    /\ pc = "restrip"
    /\ text2' = _strip_html(text1)
    /\ pc' = "stripped"
    /\ UNCHANGED <<html, text1, scripts, parsed, all_links, num_jobs,
                   job_urls_unique, i, rows, visits, returned>>

NextStrip == StripOnce \/ StripAgain

SpecStrip == InitStrip /\ [][NextStrip]_vars

----------------------------------------------------------------------------
(* Properties of get_jobs, under Spec *)

Min2(a, b) == IF a < b THEN a ELSE b

\* the distinct listing links of the results page, and where each first occurs
ListingLinks == {all_links[k] : k \in {j \in DOMAIN all_links : IsListing(all_links[j])}}
FirstAt(u) == MinOf({k \in DOMAIN all_links : all_links[k] = u})
InUrlSet(u) == \E a \in DOMAIN job_urls_unique : job_urls_unique[a] = u

IsRowVisit(v) == v.status = "row"
RowVisits == SelectSeq(visits, IsRowVisit)
Finished == pc \in {"done", "raised"}

\* C1: every field of every row get_jobs emits is non-empty: genuine content
\* or exactly "-1", whatever the extractor and the fallback lookup gave.
C1_NoEmptyField ==
    \A k \in DOMAIN rows : \A col \in Columns : rows[k][col] # Str(<<>>)

\* C2: no error is fatal: whatever the pages hold, get_jobs visits every URL
\* of the URL set, completes and returns the rows built; no exception reaches
\* the caller.
C2_NoFatalError ==
    /\ pc # "raised"
    /\ Finished => /\ Len(visits) = Len(job_urls_unique)
                   /\ returned = Table(rows)

\* C3: each field is resolved on its own: a non-empty extractor value is used
\* verbatim and no lookup is made for it; otherwise the lookup is made once,
\* and when it raises or yields nothing the field is exactly "-1".
C3_FieldsResolved ==
    /\ Len(rows) = Len(RowVisits)
    /\ \A k \in DOMAIN rows : \A col \in Columns :
          LET v == RowVisits[k]
              supplied == LdGet(Ld[v.page].result, LdKey(col))
              found == v.page.dom[col]
          IN IF Truthy(supplied)
             THEN rows[k][col] = supplied /\ col \notin v.lookups
             ELSE /\ col \in v.lookups
                  /\ (found = None \/ strip(found.s) = <<>>) => rows[k][col] = Sentinel

\* C6: a URL whose heading wait times out is skipped: no extractor run, no
\* lookup, no row, and the loop goes on; the returned table has exactly one
\* row per URL whose wait succeeded, in URL-set order.
C6_TimeoutSkipsUrl ==
    /\ \A k \in DOMAIN visits :
          /\ visits[k].url = job_urls_unique[k]
          /\ visits[k].status = "timeout" =>
                ~visits[k].extracted /\ visits[k].lookups = {}
    /\ Len(rows) = Cardinality({k \in DOMAIN visits : visits[k].status = "row"})
    /\ pc = "done" =>
          /\ Len(visits) = Len(job_urls_unique)
          /\ returned.rows =
                [k \in 1..Len(RowVisits) |->
                    Row(Ld[RowVisits[k].page].result, RowVisits[k].page)]

C6_Witness ==
    /\ pc = "done"
    /\ Len(visits) = 3
    /\ visits[1].status = "row" /\ visits[2].status = "timeout" /\ visits[3].status = "row"
    /\ Len(returned.rows) = 2

\* C7: exactly min(n, num_jobs) URLs are visited, each once, where n is the
\* number of distinct listing links, and at most num_jobs rows are produced.
C7_CappedVisits ==
    Finished =>
        /\ Len(visits) = Min2(Cardinality(ListingLinks), num_jobs)
        /\ \A a, b \in DOMAIN visits : a # b => visits[a].url # visits[b].url
        /\ Len(rows) <= num_jobs

\* C8: the URL set holds each distinct listing link at most once, in the order
\* of first occurrence on the results page, and only the cap leaves a listing
\* link out; the same link 4 times gives 1 entry.
C8_UrlSetDeduped ==
    pc # "collect" =>
        /\ \A a, b \in DOMAIN job_urls_unique :
              a < b => /\ job_urls_unique[a] # job_urls_unique[b]
                       /\ FirstAt(job_urls_unique[a]) < FirstAt(job_urls_unique[b])
        /\ \A a \in DOMAIN job_urls_unique : job_urls_unique[a] \in ListingLinks
        /\ \A u \in ListingLinks :
              ~InUrlSet(u) =>
                  /\ Len(job_urls_unique) = num_jobs
                  /\ \A a \in DOMAIN job_urls_unique :
                        FirstAt(job_urls_unique[a]) < FirstAt(u)
        /\ (Cardinality(ListingLinks) = 1 /\ num_jobs >= 1) => Len(job_urls_unique) = 1

C8_Witness ==
    /\ pc = "loop"
    /\ all_links = <<Url("2"), Url("2"), Url("2"), Url("2")>>
    /\ job_urls_unique = <<Url("2")>>

----------------------------------------------------------------------------
(* Properties of _parse_json_ld, under SpecParse and SpecLoc *)

CandsOf(blk) == IF blk.raw = "json" THEN Candidates(blk.data) ELSE <<>>

\* the places <<block, candidate>> of the JobPosting candidates of the page
JobPlaces ==
    UNION {{<<b, c>> : c \in {n \in DOMAIN CandsOf(scripts[b]) :
                                  /\ CandsOf(scripts[b])[n].kind = "dict"
                                  /\ IsJob(CandsOf(scripts[b])[n])}} :
           b \in DOMAIN scripts}

Earlier(p, q) == p[1] < q[1] \/ (p[1] = q[1] /\ p[2] < q[2])
FirstJob == CHOOSE p \in JobPlaces : \A q \in JobPlaces \ {p} : Earlier(p, q)

\* C4: the result holds the fields of the first JobPosting candidate in
\* document order and nothing else, also for a field that candidate lacks;
\* no candidate or block after the first match is inspected.
C4_FirstPostingWins ==
    pc = "parsed" =>
        IF JobPlaces = {}
        THEN parsed.result = <<>> /\ Len(parsed.trail) = Len(scripts)
        ELSE /\ Len(parsed.trail) = FirstJob[1]
             /\ parsed.trail[FirstJob[1]] = FirstJob[2]
             /\ parsed.status = Extract(CandsOf(scripts[FirstJob[1]])[FirstJob[2]]).status
             /\ parsed.result = Extract(CandsOf(scripts[FirstJob[1]])[FirstJob[2]]).result

C4_Witness ==
    /\ pc = "parsed"
    /\ scripts = <<Block("json", List(<<NotPosting, UntypedList>>)),
                   Block("json", List(<<T("s"), NotPosting, PostingC, PostingA>>))>>
    /\ "title" \notin DOMAIN parsed.result
    /\ parsed.result["company"] = T("M")

IsParseable(blk) == blk.raw # "malformed"

\* C10: a block that is not parseable JSON is ignored without raising and the
\* scan goes on: the outcome is that of the page without its unparseable
\* blocks.
C10_MalformedIgnored ==
    pc = "parsed" =>
        /\ parsed.status = _parse_json_ld(SelectSeq(scripts, IsParseable)).status
        /\ parsed.result = _parse_json_ld(SelectSeq(scripts, IsParseable)).result
        /\ (\A b \in DOMAIN scripts : ~IsParseable(scripts[b])) =>
              parsed.status = "returned" /\ parsed.result = <<>>

C10_Witness ==
    /\ pc = "parsed"
    /\ scripts = <<Block("malformed", None), Block("json", PostingB)>>
    /\ parsed.status = "returned"
    /\ parsed.result = ("title" :> T("B"))

\* the location objects of the page's one JobPosting (SpecLoc)
LocObjects ==
    LET loc == Get(scripts[1].data, "jobLocation")
    IN IF loc.kind = "list" THEN loc.xs
       ELSE IF loc.kind = "dict" THEN <<loc>> ELSE <<>>

HasLocality(l) ==
    /\ l.kind = "dict"
    /\ Get(l, "address").kind = "dict"
    /\ Truthy(Get(Get(l, "address"), "addressLocality"))

\* C9: the first location object whose address has a locality decides the
\* location, "<locality>, <region>" with a region and the locality alone
\* without; later objects are ignored; when no object has a locality the
\* result has no location key, never a sentinel or an empty string.
C9_FirstLocalityDecides ==
    pc = "parsed" =>
        LET hits == {k \in DOMAIN LocObjects : HasLocality(LocObjects[k])}
        IN IF hits = {}
           THEN "location" \notin DOMAIN parsed.result
           ELSE LET addr == Get(LocObjects[MinOf(hits)], "address")
                    city == Get(addr, "addressLocality")
                    region == Get(addr, "addressRegion")
                IN /\ "location" \in DOMAIN parsed.result
                   /\ parsed.result["location"] \notin {Sentinel, Str(<<>>)}
                   /\ parsed.result["location"] =
                         IF Truthy(region)
                         THEN Str(Format(city) \o <<",", " ">> \o Format(region))
                         ELSE city

C9_Witness ==
    /\ pc = "parsed"
    /\ Get(scripts[1].data, "jobLocation") =
          List(<<Dict("address" :> Dict("addressRegion" :> T("R"))),
                 Dict("address" :> Dict("addressLocality" :> T("P") @@ "addressRegion" :> T("R"))),
                 Dict("address" :> Dict("addressLocality" :> T("Q")))>>)
    /\ parsed.result["location"] = Str(<<"P", ",", " ", "R">>)

----------------------------------------------------------------------------
(* Properties of _strip_html, under SpecStrip *)

\* an &amp; directly followed by amp; or nbsp;
DoubleEscaped(s) ==
    \E j \in 1..Len(s) :
        \/ At(s, j, <<"&", "a", "m", "p", ";", "a", "m", "p", ";">>)
        \/ At(s, j, <<"&", "a", "m", "p", ";", "n", "b", "s", "p", ";">>)

\* C5 as stated: _strip_html(_strip_html(s)) = _strip_html(s) for every s.
C5_Idempotent ==
    pc = "stripped" => text2 = text1

\* C5 amended: _strip_html(_strip_html(s)) = _strip_html(s) for every s in
\* which no &amp; is directly followed by amp; or nbsp;.
C5_IdempotentUnlessDoubleEscaped ==
    (pc = "stripped" /\ ~DoubleEscaped(html)) => text2 = text1

C5_Witness ==
    /\ pc = "stripped"
    /\ html = <<"<", "b", "r", ">", "&", "a", "m", "p", ";">>
    /\ text1 = <<"&">>
    /\ text2 = text1

====
